---- MODULE Spec2Model ----
(***************************************************************************)
(* The Person/Address/Owner/Pet CRUD service of src/main.py: four          *)
(* in-memory dictionaries and the handlers that create, list, get, patch   *)
(* and delete their records.                                               *)
(*                                                                         *)
(* Representation.  A Python dict is an association list in insertion      *)
(* order: a sequence of [key, value] entries.  A pydantic model instance   *)
(* is a record of its fields.  Scalars are written as strings (numbers by  *)
(* their literals: the handlers only ever compare them for equality),      *)
(* UUIDs and timestamps as naturals.  An Update payload is the function    *)
(* from the fields the client set to their values, which is what           *)
(* model_dump(exclude_unset=True) returns.  Requests are served one at a   *)
(* time: a handler runs when the previous response has been sent.          *)
(***************************************************************************)
EXTENDS Naturals, Sequences, FiniteSets, TLC

VARIABLES
    persons,    \* main.py: persons: Dict[UUID, PersonRead]
    addresses,  \* main.py: addresses: Dict[UUID, AddressRead]
    owners,     \* main.py: owners: Dict[UUID, OwnerRead]
    pets,       \* main.py: pets: Dict[UUID, PetRead]
    used,       \* the UUIDs seen so far, which uuid4() will not return again
    now,        \* what datetime.utcnow() returns; later once it has been read
    deleted,    \* history: the <<kind, id>> a DELETE has answered 204 for
    posted,     \* history: the POSTs whose record has not been written since
    born,       \* history: the stored records in the order of their creation
    patching,   \* a PATCH running beside other requests: its position and locals
    deleting,   \* a DELETE running beside other requests: its position
    response    \* the request just served with its response; NoResponse when idle

stores == <<persons, addresses, owners, pets>>
vars == <<persons, addresses, owners, pets, used, now, deleted, posted, born,
          patching, deleting, response>>

\* Number of distinct UUIDs the run may see.
MaxIds == 2

UUIDs == 1..MaxIds

\* Python's None.
NULL == "None"

----------------------------------------------------------------------------
(* dict *)

Keys(d) == {d[i].key : i \in DOMAIN d}

\* k in d
Contains(d, k) == k \in Keys(d)

IndexOf(d, k) == CHOOSE i \in DOMAIN d : d[i].key = k

\* d[k]
Get(d, k) == d[IndexOf(d, k)].value

\* SetItem on a store kept as a plain list of entries.
SetItem_append(d, k, v) == Append(d, [key |-> k, value |-> v])

\* SetItem that takes an existing key out and puts it back last.
SetItem_move(d, k, v) ==
    LET Other(e) == e.key # k
    IN  Append(SelectSeq(d, Other), [key |-> k, value |-> v])

\* d[k] = v : an existing key keeps its position, a new key goes last.
SetItem(d, k, v) ==
    IF Contains(d, k)
    THEN [d EXCEPT ![IndexOf(d, k)] = [key |-> k, value |-> v]]
    ELSE Append(d, [key |-> k, value |-> v])

\* DelItem that removes nothing.
DelItem_keep(d, k) == d

\* del d[k]
DelItem(d, k) ==
    LET i == IndexOf(d, k)
    IN  SubSeq(d, 1, i - 1) \o SubSeq(d, i + 1, Len(d))

\* list(d.values())
Values(d) == [i \in DOMAIN d |-> d[i].value]

\* DictUpdate with the merge the wrong way round: the stored value wins.
DictUpdate_reversed(stored, patch) ==
    [f \in DOMAIN stored \cup DOMAIN patch |->
        IF f \in DOMAIN stored THEN stored[f] ELSE patch[f]]

\* stored.update(patch) on two dicts given as functions
DictUpdate(stored, patch) ==
    [f \in DOMAIN stored \cup DOMAIN patch |->
        IF f \in DOMAIN patch THEN patch[f] ELSE stored[f]]

\* uuid4(): an identifier never seen before.
uuid4 == CHOOSE u \in UUIDs \ used : \A v \in UUIDs \ used : u <= v

\* The request just served and its response.
Response(op, kind, id, arg, status, body) ==
    [op |-> op, kind |-> kind, id |-> id, arg |-> arg,
     status |-> status, body |-> body]

NoResponse == Response("none", "none", 0, NULL, 0, NULL)

\* A request that is not running.
NoThread == [pc |-> "none"]

\* No request is being served.
Idle == response.op = "none"

\* History of a POST answered 201 with record id `id`.
Posted(kind, id, payload) == [kind |-> kind, id |-> id, payload |-> payload]

\* History after a write to the record `id` of `kind`.
Written(kind, id) == {p \in posted : ~(p.kind = kind /\ p.id = id)}

Stamps == {"created_at", "updated_at"}

\* History of the creation of `record`: its id and the timestamps it got.
Born(kind, record) ==
    [kind |-> kind, id |-> record.id,
     stamps |-> [f \in DOMAIN record \cap Stamps |-> record[f]]]

\* History after the record `id` of `kind` has been deleted.
Unborn(kind, id) ==
    LET Stays(b) == ~(b.kind = kind /\ b.id = id)
    IN  SelectSeq(born, Stays)

\* None in a field that otherwise holds a list of models.
NullList == <<[none |-> TRUE]>>

\* The payload that sets no field.
Unset == [f \in {} |-> NULL]

----------------------------------------------------------------------------
(* models/pet.py *)

PetBaseFields == {"name", "species", "age", "weight"}
PetReadFields == PetBaseFields \cup {"id", "created_at", "updated_at"}
PetRequired == {"name", "species"}

\* PetBase(**d): the four declared fields, anything else is ignored.
PetBase(d) == [f \in PetBaseFields |-> d[f]]

\* Whether PetRead(**d) passes validation: name and species are str, not
\* Optional, and have no default.
PetReadValid(d) ==
    \A f \in PetRequired : f \in DOMAIN d /\ d[f] # NULL

PetReadDefault(f) ==
    CASE f = "id" -> uuid4
      [] f \in {"created_at", "updated_at"} -> now
      [] OTHER -> NULL

\* PetRead that does not pass weight on.
PetRead_drop(d) ==
    [f \in PetReadFields |->
        IF f \in DOMAIN d /\ f # "weight" THEN d[f] ELSE PetReadDefault(f)]

\* PetRead(**d): the fields given, the default factories for the rest.
PetRead(d) ==
    [f \in PetReadFields |-> IF f \in DOMAIN d THEN d[f] ELSE PetReadDefault(f)]

Rex == [name |-> "Rex", species |-> "Dog", age |-> "5", weight |-> "30.5"]

\* Request bodies of POST /pets that pass PetCreate validation.
PetCreates ==
    { Rex, [name |-> "Tom", species |-> "Cat", age |-> NULL, weight |-> NULL] }

\* Request bodies of PATCH /pets/{id} that pass PetUpdate validation.
PetUpdates ==
    { Unset,
      [age |-> "6"],
      [name |-> "Tom", weight |-> NULL],
      [name |-> NULL],
      [species |-> NULL, age |-> "6"],
      Rex }

\* Query strings of GET /pets: None is an absent parameter.
PetQueries ==
    [name : {NULL, "Rex"}, species : {NULL, "Dog"},
     age : {NULL, "5"}, weight : {NULL, "30.5"}]

----------------------------------------------------------------------------
(* models/address.py *)

AddressFields == {"id", "street", "city", "state", "postal_code", "country"}
AddressRequired == {"street", "city", "postal_code", "country"}

AddressDefault(f) ==
    CASE f = "id" -> uuid4
      [] OTHER -> NULL

\* AddressBase(**d), and AddressCreate and AddressRead, which add no field.
AddressBase(d) ==
    [f \in AddressFields |-> IF f \in DOMAIN d THEN d[f] ELSE AddressDefault(f)]

AddressRead(d) == AddressBase(d)

AddressReadValid(d) ==
    \A f \in AddressRequired : f \in DOMAIN d /\ d[f] # NULL

London ==
    [street |-> "10 Downing St", city |-> "London", state |-> NULL,
     postal_code |-> "SW1A 2AA", country |-> "UK"]

Paris ==
    [street |-> "1 Rue de Rivoli", city |-> "Paris", state |-> NULL,
     postal_code |-> "75001", country |-> "FR"]

WithId(d, id) == [f \in DOMAIN d \cup {"id"} |-> IF f = "id" THEN id ELSE d[f]]

\* The UUIDs a client may put in the body of POST /addresses: that of an
\* address it posted before, or one of its own making.
ClientIds == Keys(addresses) \cup (UUIDs \ used)

\* Request bodies of POST /addresses: with the client's id, or without one.
AddressCreates == {Paris} \cup {WithId(London, id) : id \in ClientIds}

AddressUpdates ==
    { Unset,
      [city |-> "Rome", state |-> "RM"],
      [street |-> NULL] }

AddressQueries ==
    { [street |-> NULL, city |-> c, state |-> st, postal_code |-> NULL, country |-> NULL] :
        c \in {NULL, "London"}, st \in {NULL, "RM"} }

----------------------------------------------------------------------------
(* models/owner.py *)

OwnerBaseFields ==
    {"first_name", "last_name", "email", "phone", "birth_date", "pet", "addresses"}
OwnerReadFields == OwnerBaseFields \cup {"id", "created_at", "updated_at"}
OwnerRequired == {"first_name", "last_name", "email"}
OwnerLists == {"pet", "addresses"}

\* Whether OwnerRead(**d) passes validation: the three names are required
\* and not Optional; pet and addresses default to [] but may not be None.
OwnerReadValid(d) ==
    /\ \A f \in OwnerRequired : f \in DOMAIN d /\ d[f] # NULL
    /\ \A f \in OwnerLists : f \in DOMAIN d => d[f] # NullList

OwnerReadDefault(f) ==
    CASE f = "id" -> uuid4
      [] f \in {"created_at", "updated_at"} -> now
      [] f \in OwnerLists -> <<>>
      [] OTHER -> NULL

\* OwnerRead(**d): nested dicts become PetBase and AddressBase models.
OwnerRead(d) ==
    [f \in OwnerReadFields |->
        IF f \notin DOMAIN d THEN OwnerReadDefault(f)
        ELSE IF f = "pet" THEN [i \in DOMAIN d[f] |-> PetBase(d[f][i])]
        ELSE IF f = "addresses" THEN [i \in DOMAIN d[f] |-> AddressBase(d[f][i])]
        ELSE d[f]]

Ada ==
    [first_name |-> "Ada", last_name |-> "Lovelace", email |-> "ada@example.com",
     phone |-> "+1-212-555-0199", birth_date |-> "1815-12-10",
     pet |-> <<Rex>>, addresses |-> <<WithId(London, 1), WithId(Paris, 2)>>]

Grace ==
    [first_name |-> "Grace", last_name |-> "Hopper", email |-> "grace.hopper@navy.mil",
     phone |-> NULL, birth_date |-> NULL, pet |-> <<>>, addresses |-> <<>>]

OwnerCreates == {Ada, Grace}

OwnerUpdates ==
    { Unset,
      [phone |-> NULL, addresses |-> <<WithId(London, 1)>>],
      [first_name |-> NULL, last_name |-> "King"],
      [pet |-> NullList] }

NoOwnerFilter ==
    [first_name |-> NULL, last_name |-> NULL, email |-> NULL, phone |-> NULL,
     birth_date |-> NULL, city |-> NULL, country |-> NULL]

OwnerQueries ==
    { [NoOwnerFilter EXCEPT !.city = c, !.country = k] :
        c \in {NULL, "London"}, k \in {NULL, "FR"} }
    \cup { [NoOwnerFilter EXCEPT !.first_name = "Ada", !.birth_date = "1815-12-10"],
           [NoOwnerFilter EXCEPT !.last_name = "Hopper", !.email = "grace.hopper@navy.mil"],
           [NoOwnerFilter EXCEPT !.phone = "+1-212-555-0199"] }

----------------------------------------------------------------------------
(* models/person.py *)

PersonBaseFields ==
    {"uni", "first_name", "last_name", "email", "phone", "birth_date", "addresses"}
PersonReadFields == PersonBaseFields \cup {"id"}
PersonRequired == {"uni", "first_name", "last_name", "email"}

PersonReadValid(d) ==
    /\ \A f \in PersonRequired : f \in DOMAIN d /\ d[f] # NULL
    /\ "addresses" \in DOMAIN d => d.addresses # NullList

PersonReadDefault(f) ==
    CASE f = "id" -> uuid4
      [] f = "addresses" -> <<>>
      [] OTHER -> NULL

PersonRead(d) ==
    [f \in PersonReadFields |->
        IF f \notin DOMAIN d THEN PersonReadDefault(f)
        ELSE IF f = "addresses" THEN [i \in DOMAIN d[f] |-> AddressBase(d[f][i])]
        ELSE d[f]]

Alan ==
    [uni |-> "amt2012", first_name |-> "Alan", last_name |-> "Turing",
     email |-> "alan@example.com", phone |-> NULL, birth_date |-> "1912-06-23",
     addresses |-> <<WithId(London, 1), WithId(Paris, 2)>>]

Kurt ==
    [uni |-> "kg1906", first_name |-> "Kurt", last_name |-> "Goedel",
     email |-> "kurt@example.com", phone |-> NULL, birth_date |-> NULL,
     addresses |-> <<>>]

PersonCreates == {Alan, Kurt}

PersonUpdates ==
    { Unset,
      [phone |-> "+44 20 7946 0958", addresses |-> <<WithId(London, 1)>>],
      [uni |-> NULL] }

NoPersonFilter ==
    [uni |-> NULL, first_name |-> NULL, last_name |-> NULL, email |-> NULL,
     phone |-> NULL, birth_date |-> NULL, city |-> NULL, country |-> NULL]

PersonQueries ==
    { [NoPersonFilter EXCEPT !.city = c, !.country = k] :
        c \in {NULL, "London"}, k \in {NULL, "FR"} }
    \cup { [NoPersonFilter EXCEPT !.uni = "amt2012", !.birth_date = "1912-06-23"] }

\* str(v) of a date or of None.
Str(v) == IF v = NULL THEN "None" ELSE v

\* AnyCity with all() for any().
AnyCity_all(addrs, city) == \A i \in DOMAIN addrs : addrs[i].city = city

\* any(pred(addr) for addr in addrs)
AnyCity(addrs, city) == \E i \in DOMAIN addrs : addrs[i].city = city
AnyCountry(addrs, country) == \E i \in DOMAIN addrs : addrs[i].country = country

----------------------------------------------------------------------------
(* Address endpoints *)

\* create_address without the check for an existing id.
create_address_overwrite(body) ==
    /\ Idle
    /\ "id" \notin DOMAIN body => used # UUIDs
    /\ LET address == AddressBase(body)
       IN  /\ addresses' = SetItem(addresses, address.id, AddressRead(address))
           /\ response' = Response("create", "address", address.id, body, 201,
                                   Get(addresses', address.id))
           /\ posted' = posted \cup {Posted("address", address.id, body)}
           /\ born' = Append(born, Born("address", Get(addresses', address.id)))
           /\ used' = used \cup {address.id}
    /\ UNCHANGED <<persons, owners, pets, now, deleted, patching, deleting>>

create_address(body) ==
    /\ Idle
    /\ "id" \notin DOMAIN body => used # UUIDs
    /\ LET address == AddressBase(body)
       IN  /\ IF Contains(addresses, address.id)
              THEN /\ response' = Response("create", "address", address.id, body, 400, NULL)
                   /\ UNCHANGED <<addresses, posted, born>>
              ELSE /\ addresses' = SetItem(addresses, address.id, AddressRead(address))
                   /\ response' = Response("create", "address", address.id, body, 201,
                                           Get(addresses', address.id))
                   /\ posted' = posted \cup {Posted("address", address.id, body)}
                   /\ born' = Append(born, Born("address", Get(addresses', address.id)))
           /\ used' = used \cup {address.id}
    /\ UNCHANGED <<persons, owners, pets, now, deleted, patching, deleting>>

list_addresses_results(q) ==
    LET r0 == Values(addresses)
        By_street(x) == x.street = q.street
        By_city(x) == x.city = q.city
        By_state(x) == x.state = q.state
        By_postal_code(x) == x.postal_code = q.postal_code
        By_country(x) == x.country = q.country
        r1 == IF q.street # NULL THEN SelectSeq(r0, By_street) ELSE r0
        r2 == IF q.city # NULL THEN SelectSeq(r1, By_city) ELSE r1
        r3 == IF q.state # NULL THEN SelectSeq(r2, By_state) ELSE r2
        r4 == IF q.postal_code # NULL THEN SelectSeq(r3, By_postal_code) ELSE r3
        r5 == IF q.country # NULL THEN SelectSeq(r4, By_country) ELSE r4
    IN  r5

list_addresses(q) ==
    /\ Idle
    /\ response' = Response("list", "address", 0, q, 200, list_addresses_results(q))
    /\ UNCHANGED <<persons, addresses, owners, pets, used, now, deleted, posted, born, patching, deleting>>

get_address(address_id) ==
    /\ Idle
    /\ IF ~Contains(addresses, address_id)
       THEN response' = Response("get", "address", address_id, NULL, 404, NULL)
       ELSE response' = Response("get", "address", address_id, NULL, 200, Get(addresses, address_id))
    /\ UNCHANGED <<persons, addresses, owners, pets, used, now, deleted, posted, born, patching, deleting>>

update_address(address_id, update) ==
    /\ Idle
    /\ IF ~Contains(addresses, address_id)
       THEN /\ response' = Response("update", "address", address_id, update, 404, NULL)
            /\ UNCHANGED <<addresses, posted>>
       ELSE LET stored == DictUpdate(Get(addresses, address_id), update)
            IN  IF AddressReadValid(stored)
                THEN /\ addresses' = SetItem(addresses, address_id, AddressRead(stored))
                     /\ response' = Response("update", "address", address_id, update, 200,
                                             Get(addresses', address_id))
                     /\ posted' = Written("address", address_id)
                ELSE \* pydantic's ValidationError leaves the handler: 500
                     /\ response' = Response("update", "address", address_id, update, 500, NULL)
                     /\ UNCHANGED <<addresses, posted>>
    /\ UNCHANGED <<persons, owners, pets, used, now, deleted, born, patching, deleting>>

----------------------------------------------------------------------------
(* Person endpoints *)

create_person(person) ==
    /\ Idle
    /\ used # UUIDs
    /\ LET person_read == PersonRead(person)
       IN  /\ persons' = SetItem(persons, person_read.id, person_read)
           /\ used' = used \cup {person_read.id}
           /\ response' = Response("create", "person", person_read.id, person, 201, person_read)
           /\ posted' = posted \cup {Posted("person", person_read.id, person)}
           /\ born' = Append(born, Born("person", person_read))
    /\ now' = now  \* the model has no timestamp: the clock is not read
    /\ UNCHANGED <<addresses, owners, pets, deleted, patching, deleting>>

list_persons_results(q) ==
    LET r0 == Values(persons)
        By_uni(x) == x.uni = q.uni
        By_first_name(x) == x.first_name = q.first_name
        By_last_name(x) == x.last_name = q.last_name
        By_email(x) == x.email = q.email
        By_phone(x) == x.phone = q.phone
        By_birth_date(x) == Str(x.birth_date) = q.birth_date
        By_city(x) == AnyCity(x.addresses, q.city)
        By_country(x) == AnyCountry(x.addresses, q.country)
        r1 == IF q.uni # NULL THEN SelectSeq(r0, By_uni) ELSE r0
        r2 == IF q.first_name # NULL THEN SelectSeq(r1, By_first_name) ELSE r1
        r3 == IF q.last_name # NULL THEN SelectSeq(r2, By_last_name) ELSE r2
        r4 == IF q.email # NULL THEN SelectSeq(r3, By_email) ELSE r3
        r5 == IF q.phone # NULL THEN SelectSeq(r4, By_phone) ELSE r4
        r6 == IF q.birth_date # NULL THEN SelectSeq(r5, By_birth_date) ELSE r5
        r7 == IF q.city # NULL THEN SelectSeq(r6, By_city) ELSE r6
        r8 == IF q.country # NULL THEN SelectSeq(r7, By_country) ELSE r7
    IN  r8

list_persons(q) ==
    /\ Idle
    /\ response' = Response("list", "person", 0, q, 200, list_persons_results(q))
    /\ UNCHANGED <<persons, addresses, owners, pets, used, now, deleted, posted, born, patching, deleting>>

get_person(person_id) ==
    /\ Idle
    /\ IF ~Contains(persons, person_id)
       THEN response' = Response("get", "person", person_id, NULL, 404, NULL)
       ELSE response' = Response("get", "person", person_id, NULL, 200, Get(persons, person_id))
    /\ UNCHANGED <<persons, addresses, owners, pets, used, now, deleted, posted, born, patching, deleting>>

update_person(person_id, update) ==
    /\ Idle
    /\ IF ~Contains(persons, person_id)
       THEN /\ response' = Response("update", "person", person_id, update, 404, NULL)
            /\ UNCHANGED <<persons, posted>>
       ELSE LET stored == DictUpdate(Get(persons, person_id), update)
            IN  IF PersonReadValid(stored)
                THEN /\ persons' = SetItem(persons, person_id, PersonRead(stored))
                     /\ response' = Response("update", "person", person_id, update, 200,
                                             Get(persons', person_id))
                     /\ posted' = Written("person", person_id)
                ELSE \* pydantic's ValidationError leaves the handler: 500
                     /\ response' = Response("update", "person", person_id, update, 500, NULL)
                     /\ UNCHANGED <<persons, posted>>
    /\ UNCHANGED <<addresses, owners, pets, used, now, deleted, born, patching, deleting>>

----------------------------------------------------------------------------
(* Owner endpoints *)

create_owner(owner) ==
    /\ Idle
    /\ used # UUIDs
    /\ LET owner_read == OwnerRead(owner)
       IN  /\ owners' = SetItem(owners, owner_read.id, owner_read)
           /\ used' = used \cup {owner_read.id}
           /\ response' = Response("create", "owner", owner_read.id, owner, 201, owner_read)
           /\ posted' = posted \cup {Posted("owner", owner_read.id, owner)}
           /\ born' = Append(born, Born("owner", owner_read))
    /\ now' = now + 1  \* utcnow() is later at every later request
    /\ UNCHANGED <<persons, addresses, pets, deleted, patching, deleting>>

list_owners_results(q) ==
    LET r0 == Values(owners)
        By_first_name(x) == x.first_name = q.first_name
        By_last_name(x) == x.last_name = q.last_name
        By_email(x) == x.email = q.email
        By_phone(x) == x.phone = q.phone
        By_birth_date(x) == Str(x.birth_date) = q.birth_date
        By_city(x) == AnyCity(x.addresses, q.city)
        By_country(x) == AnyCountry(x.addresses, q.country)
        r1 == IF q.first_name # NULL THEN SelectSeq(r0, By_first_name) ELSE r0
        r2 == IF q.last_name # NULL THEN SelectSeq(r1, By_last_name) ELSE r1
        r3 == IF q.email # NULL THEN SelectSeq(r2, By_email) ELSE r2
        r4 == IF q.phone # NULL THEN SelectSeq(r3, By_phone) ELSE r3
        r5 == IF q.birth_date # NULL THEN SelectSeq(r4, By_birth_date) ELSE r4
        r6 == IF q.city # NULL THEN SelectSeq(r5, By_city) ELSE r5
        r7 == IF q.country # NULL THEN SelectSeq(r6, By_country) ELSE r6
    IN  r7

list_owners(q) ==
    /\ Idle
    /\ response' = Response("list", "owner", 0, q, 200, list_owners_results(q))
    /\ UNCHANGED <<persons, addresses, owners, pets, used, now, deleted, posted, born, patching, deleting>>

get_owner(owner_id) ==
    /\ Idle
    /\ IF ~Contains(owners, owner_id)
       THEN response' = Response("get", "owner", owner_id, NULL, 404, NULL)
       ELSE response' = Response("get", "owner", owner_id, NULL, 200, Get(owners, owner_id))
    /\ UNCHANGED <<persons, addresses, owners, pets, used, now, deleted, posted, born, patching, deleting>>

update_owner(owner_id, update) ==
    /\ Idle
    /\ IF ~Contains(owners, owner_id)
       THEN /\ response' = Response("update", "owner", owner_id, update, 404, NULL)
            /\ UNCHANGED <<owners, posted>>
       ELSE LET stored == DictUpdate(Get(owners, owner_id), update)
            IN  IF OwnerReadValid(stored)
                THEN /\ owners' = SetItem(owners, owner_id, OwnerRead(stored))
                     /\ response' = Response("update", "owner", owner_id, update, 200,
                                             Get(owners', owner_id))
                     /\ posted' = Written("owner", owner_id)
                ELSE \* pydantic's ValidationError leaves the handler: 500
                     /\ response' = Response("update", "owner", owner_id, update, 500, NULL)
                     /\ UNCHANGED <<owners, posted>>
    /\ UNCHANGED <<persons, addresses, pets, used, now, deleted, born, patching, deleting>>

\* delete_owner that deletes the pets with the owner.
delete_owner_cascade(owner_id) ==
    /\ Idle
    /\ IF ~Contains(owners, owner_id)
       THEN /\ response' = Response("delete", "owner", owner_id, NULL, 404, NULL)
            /\ UNCHANGED <<owners, pets, deleted, posted, born>>
       ELSE /\ owners' = DelItem(owners, owner_id)
            /\ pets' = <<>>
            /\ deleted' = deleted \cup {<<"owner", owner_id>>}
            /\ born' = Unborn("owner", owner_id)
            /\ posted' = Written("owner", owner_id)
            /\ response' = Response("delete", "owner", owner_id, NULL, 204, NULL)
    /\ UNCHANGED <<persons, addresses, used, now, patching, deleting>>

delete_owner(owner_id) ==
    /\ Idle
    /\ IF ~Contains(owners, owner_id)
       THEN /\ response' = Response("delete", "owner", owner_id, NULL, 404, NULL)
            /\ UNCHANGED <<owners, deleted, posted, born>>
       ELSE /\ owners' = DelItem(owners, owner_id)
            /\ deleted' = deleted \cup {<<"owner", owner_id>>}
            /\ born' = Unborn("owner", owner_id)
            /\ posted' = Written("owner", owner_id)
            /\ response' = Response("delete", "owner", owner_id, NULL, 204, NULL)
    /\ UNCHANGED <<persons, addresses, pets, used, now, patching, deleting>>

----------------------------------------------------------------------------
(* Pet endpoints *)

create_pet(pet) ==
    /\ Idle
    /\ used # UUIDs
    /\ LET pet_read == PetRead(pet)
       IN  /\ pets' = SetItem(pets, pet_read.id, pet_read)
           /\ used' = used \cup {pet_read.id}
           /\ response' = Response("create", "pet", pet_read.id, pet, 201, pet_read)
           /\ posted' = posted \cup {Posted("pet", pet_read.id, pet)}
           /\ born' = Append(born, Born("pet", pet_read))
    /\ now' = now + 1  \* utcnow() is later at every later request
    /\ UNCHANGED <<persons, addresses, owners, deleted, patching, deleting>>

\* list_pets_results whose weight filter starts again from all the pets.
list_pets_results_reset(q) ==
    LET r0 == Values(pets)
        By_name(x) == x.name = q.name
        By_species(x) == x.species = q.species
        By_age(x) == x.age = q.age
        By_weight(x) == x.weight = q.weight
        r1 == IF q.name # NULL THEN SelectSeq(r0, By_name) ELSE r0
        r2 == IF q.species # NULL THEN SelectSeq(r1, By_species) ELSE r1
        r3 == IF q.age # NULL THEN SelectSeq(r2, By_age) ELSE r2
        r4 == IF q.weight # NULL THEN SelectSeq(r0, By_weight) ELSE r3
    IN  r4

list_pets_results(q) ==
    LET r0 == Values(pets)
        By_name(x) == x.name = q.name
        By_species(x) == x.species = q.species
        By_age(x) == x.age = q.age
        By_weight(x) == x.weight = q.weight
        r1 == IF q.name # NULL THEN SelectSeq(r0, By_name) ELSE r0
        r2 == IF q.species # NULL THEN SelectSeq(r1, By_species) ELSE r1
        r3 == IF q.age # NULL THEN SelectSeq(r2, By_age) ELSE r2
        r4 == IF q.weight # NULL THEN SelectSeq(r3, By_weight) ELSE r3
    IN  r4

list_pets(q) ==
    /\ Idle
    /\ response' = Response("list", "pet", 0, q, 200, list_pets_results(q))
    /\ UNCHANGED <<persons, addresses, owners, pets, used, now, deleted, posted, born, patching, deleting>>

\* get_pet that takes the record out of the store.
get_pet_pop(pet_id) ==
    /\ Idle
    /\ IF ~Contains(pets, pet_id)
       THEN /\ response' = Response("get", "pet", pet_id, NULL, 404, NULL)
            /\ UNCHANGED pets
       ELSE /\ response' = Response("get", "pet", pet_id, NULL, 200, Get(pets, pet_id))
            /\ pets' = DelItem(pets, pet_id)
    /\ UNCHANGED <<persons, addresses, owners, used, now, deleted, posted, born, patching, deleting>>

get_pet(pet_id) ==
    /\ Idle
    /\ IF ~Contains(pets, pet_id)
       THEN response' = Response("get", "pet", pet_id, NULL, 404, NULL)
       ELSE response' = Response("get", "pet", pet_id, NULL, 200, Get(pets, pet_id))
    /\ UNCHANGED <<persons, addresses, owners, pets, used, now, deleted, posted, born, patching, deleting>>

\* update_pet that sets updated_at to the time of the update.
update_pet_touch(pet_id, update) ==
    /\ Idle
    /\ IF ~Contains(pets, pet_id)
       THEN /\ response' = Response("update", "pet", pet_id, update, 404, NULL)
            /\ UNCHANGED <<pets, posted>>
       ELSE LET stored == DictUpdate(Get(pets, pet_id), update)
            IN  IF PetReadValid(stored)
                THEN /\ pets' = SetItem(pets, pet_id,
                                        [PetRead(stored) EXCEPT !.updated_at = now])
                     /\ response' = Response("update", "pet", pet_id, update, 200,
                                             Get(pets', pet_id))
                     /\ posted' = Written("pet", pet_id)
                ELSE /\ response' = Response("update", "pet", pet_id, update, 500, NULL)
                     /\ UNCHANGED <<pets, posted>>
    /\ UNCHANGED <<persons, addresses, owners, used, now, deleted, born, patching, deleting>>

\* update_pet that creates the record when the id is unknown.
update_pet_upsert(pet_id, update) ==
    /\ Idle
    /\ LET stored == IF Contains(pets, pet_id)
                     THEN DictUpdate(Get(pets, pet_id), update)
                     ELSE WithId(update, pet_id)
       IN  IF PetReadValid(stored)
           THEN /\ pets' = SetItem(pets, pet_id, PetRead(stored))
                /\ response' = Response("update", "pet", pet_id, update, 200,
                                        Get(pets', pet_id))
                /\ posted' = Written("pet", pet_id)
           ELSE /\ response' = Response("update", "pet", pet_id, update, 500, NULL)
                /\ UNCHANGED <<pets, posted>>
    /\ UNCHANGED <<persons, addresses, owners, used, now, deleted, born, patching, deleting>>

update_pet(pet_id, update) ==
    /\ Idle
    /\ IF ~Contains(pets, pet_id)
       THEN /\ response' = Response("update", "pet", pet_id, update, 404, NULL)
            /\ UNCHANGED <<pets, posted>>
       ELSE LET stored == DictUpdate(Get(pets, pet_id), update)
            IN  IF PetReadValid(stored)
                THEN /\ pets' = SetItem(pets, pet_id, PetRead(stored))
                     /\ response' = Response("update", "pet", pet_id, update, 200,
                                             Get(pets', pet_id))
                     /\ posted' = Written("pet", pet_id)
                ELSE \* pydantic's ValidationError leaves the handler: 500
                     /\ response' = Response("update", "pet", pet_id, update, 500, NULL)
                     /\ UNCHANGED <<pets, posted>>
    /\ UNCHANGED <<persons, addresses, owners, used, now, deleted, born, patching, deleting>>

delete_pet(pet_id) ==
    /\ Idle
    /\ IF ~Contains(pets, pet_id)
       THEN /\ response' = Response("delete", "pet", pet_id, NULL, 404, NULL)
            /\ UNCHANGED <<pets, deleted, posted, born>>
       ELSE /\ pets' = DelItem(pets, pet_id)
            /\ deleted' = deleted \cup {<<"pet", pet_id>>}
            /\ born' = Unborn("pet", pet_id)
            /\ posted' = Written("pet", pet_id)
            /\ response' = Response("delete", "pet", pet_id, NULL, 204, NULL)
    /\ UNCHANGED <<persons, addresses, owners, used, now, patching, deleting>>

----------------------------------------------------------------------------
\* The response goes out; the server waits for the next request.
send_response ==
    /\ ~Idle
    /\ response' = NoResponse
    /\ UNCHANGED <<persons, addresses, owners, pets, used, now, deleted, posted, born, patching, deleting>>

Init ==
    /\ persons = <<>>
    /\ addresses = <<>>
    /\ owners = <<>>
    /\ pets = <<>>
    /\ used = {}
    /\ now = 0
    /\ deleted = {}
    /\ posted = {}
    /\ born = <<>>
    /\ patching = NoThread
    /\ deleting = NoThread
    /\ response = NoResponse

Next ==
    \/ send_response
    \/ \E body \in AddressCreates : create_address(body)
    \/ \E q \in AddressQueries : list_addresses(q)
    \/ \E address_id \in UUIDs : get_address(address_id)
    \/ \E address_id \in UUIDs, update \in AddressUpdates : update_address(address_id, update)
    \/ \E person \in PersonCreates : create_person(person)
    \/ \E q \in PersonQueries : list_persons(q)
    \/ \E person_id \in UUIDs : get_person(person_id)
    \/ \E person_id \in UUIDs, update \in PersonUpdates : update_person(person_id, update)
    \/ \E owner \in OwnerCreates : create_owner(owner)
    \/ \E q \in OwnerQueries : list_owners(q)
    \/ \E owner_id \in UUIDs : get_owner(owner_id)
    \/ \E owner_id \in UUIDs, update \in OwnerUpdates : update_owner(owner_id, update)
    \/ \E owner_id \in UUIDs : delete_owner(owner_id)
    \/ \E pet \in PetCreates : create_pet(pet)
    \/ \E q \in PetQueries : list_pets(q)
    \/ \E pet_id \in UUIDs : get_pet(pet_id)
    \/ \E pet_id \in UUIDs, update \in PetUpdates : update_pet(pet_id, update)
    \/ \E pet_id \in UUIDs : delete_pet(pet_id)

Spec == Init /\ [][Next]_vars

----------------------------------------------------------------------------
(* The service with a pet already stored: POST /pets served once *)

\* The record create_pet stored for Rex, at time 0 under the uuid 0.
FirstPet ==
    [f \in PetReadFields |-> IF f \in DOMAIN Rex THEN Rex[f] ELSE 0]

\* The ids the clients ask for.
KnownIds == UUIDs \cup {FirstPet.id}

InitOrder ==
    /\ persons = <<>>
    /\ addresses = <<>>
    /\ owners = <<>>
    /\ pets = SetItem(<<>>, FirstPet.id, FirstPet)
    /\ used = {}
    /\ now = 1
    /\ deleted = {}
    /\ posted = {Posted("pet", FirstPet.id, Rex)}
    /\ born = <<Born("pet", FirstPet)>>
    /\ patching = NoThread
    /\ deleting = NoThread
    /\ response = NoResponse

\* The routes of owners and pets, the two kinds that have a DELETE.
NextOrder ==
    \/ send_response
    \/ \E owner \in OwnerCreates : create_owner(owner)
    \/ \E q \in OwnerQueries : list_owners(q)
    \/ \E owner_id \in KnownIds : get_owner(owner_id)
    \/ \E owner_id \in KnownIds, update \in OwnerUpdates : update_owner(owner_id, update)
    \/ \E owner_id \in KnownIds : delete_owner(owner_id)
    \/ \E pet \in PetCreates : create_pet(pet)
    \/ \E q \in PetQueries : list_pets(q)
    \/ \E pet_id \in KnownIds : get_pet(pet_id)
    \/ \E pet_id \in KnownIds, update \in PetUpdates : update_pet(pet_id, update)
    \/ \E pet_id \in KnownIds : delete_pet(pet_id)

SpecOrder == InitOrder /\ [][NextOrder]_vars

----------------------------------------------------------------------------
(* Properties *)

Kinds == {"address", "person", "owner", "pet"}

StoreOf(kind) ==
    CASE kind = "address" -> addresses
      [] kind = "person" -> persons
      [] kind = "owner" -> owners
      [] kind = "pet" -> pets

StoreOfNext(kind) ==
    CASE kind = "address" -> addresses'
      [] kind = "person" -> persons'
      [] kind = "owner" -> owners'
      [] kind = "pet" -> pets'

RequiredOf(kind) ==
    CASE kind = "address" -> AddressRequired
      [] kind = "person" -> PersonRequired
      [] kind = "owner" -> OwnerRequired
      [] kind = "pet" -> PetRequired

ListsOf(kind) ==
    CASE kind = "person" -> {"addresses"}
      [] kind = "owner" -> OwnerLists
      [] OTHER -> {}

\* The payload sets every field it sets to a value the Read schema accepts.
PatchValid(kind, u) ==
    /\ \A f \in DOMAIN u \cap RequiredOf(kind) : u[f] # NULL
    /\ \A f \in DOMAIN u \cap ListsOf(kind) : u[f] # NullList

\* The payload sets a required field to null.
PatchNullsRequired(kind, u) ==
    \E f \in DOMAIN u \cap RequiredOf(kind) : u[f] = NULL

Range(seq) == {seq[i] : i \in DOMAIN seq}

WellKeyed(d) ==
    \A i \in DOMAIN d :
        /\ d[i].key = d[i].value.id
        /\ \A j \in DOMAIN d : i # j => d[i].value.id # d[j].value.id

\* C2. In each store every key maps to a record whose id is that key, no two
\* stored records share an id, a record that stays in the store keeps its
\* id, and a PATCH neither adds, removes nor moves a key.
C2_Identity ==
    [][ \A kind \in Kinds :
          /\ WellKeyed(StoreOfNext(kind))
          /\ \A k \in Keys(StoreOf(kind)) \cap Keys(StoreOfNext(kind)) :
                Get(StoreOfNext(kind), k).id = Get(StoreOf(kind), k).id
          /\ response'.op = "update" =>
                Keys(StoreOfNext(kind)) = Keys(StoreOf(kind)) ]_vars

\* Two pets are stored and one of them has just been patched.
C2_Witness ==
    /\ Len(pets) = 2
    /\ response.op = "update"
    /\ response.kind = "pet"
    /\ response.status = 200
    /\ response.arg = [name |-> "Tom", weight |-> NULL]

\* C3. Once DELETE on an Owner or Pet id has answered 204, every later GET,
\* PATCH or DELETE on that id answers 404 and the id is not in the store.
C3_DeletedStaysGone ==
    [][ \A d \in deleted :
          /\ d[2] \notin Keys(StoreOfNext(d[1]))
          /\ ( /\ response'.op \in {"get", "update", "delete"}
               /\ response'.kind = d[1]
               /\ response'.id = d[2] )
             => response'.status = 404 ]_vars

\* An owner was deleted, another one created, and a PATCH on the deleted id
\* has been answered.
C3_Witness ==
    /\ owners # <<>>
    /\ response.op = "update"
    /\ response.kind = "owner"
    /\ <<"owner", response.id>> \in deleted
    /\ response.status = 404

\* C4. POST /addresses with an id that is a key of the address store answers
\* 400 and leaves the store as it was; otherwise it answers 201 and adds
\* exactly one record, under that id, leaving the others as they were.
C4_AddressConflict ==
    [][ ( response'.op = "create" /\ response'.kind = "address" )
        => LET body == response'.arg
               id == response'.id
           IN  /\ "id" \in DOMAIN body => id = body.id
               /\ IF id \in Keys(addresses)
                  THEN /\ response'.status = 400
                       /\ addresses' = addresses
                  ELSE /\ response'.status = 201
                       /\ Len(addresses') = Len(addresses) + 1
                       /\ Keys(addresses') = Keys(addresses) \cup {id}
                       /\ Get(addresses', id).id = id
                       /\ \A k \in Keys(addresses) :
                             Get(addresses', k) = Get(addresses, k) ]_vars

\* A POST of the London address under the id of a stored address, which has
\* since moved to Rome, has been refused and the stored one is still in Rome.
C4_Witness ==
    /\ response.op = "create"
    /\ response.kind = "address"
    /\ response.status = 400
    /\ response.arg.city = "London"
    /\ Get(addresses, response.id).city = "Rome"

\* C5. A PATCH whose payload passes Update validation but sets a required
\* field to null is answered with a 4xx status and changes no store.
C5_NullRequiredIsClientError ==
    [][ ( /\ response'.op = "update"
          /\ PatchNullsRequired(response'.kind, response'.arg) )
        => /\ response'.status \in 400..499
           /\ stores' = stores ]_vars

PetMatches(p, q) == \A f \in PetBaseFields : q[f] # NULL => p[f] = q[f]

\* C6. GET /pets returns exactly the stored pets that equal the supplied
\* value on every supplied filter, each once; a pet whose age or weight is
\* null matches no supplied age or weight; no filter returns every pet.
C6_PetFilter ==
    ( response.op = "list" /\ response.kind = "pet" )
    => LET q == response.arg
           body == response.body
           all == Values(pets)
           want == {p \in Range(all) : PetMatches(p, q)}
       IN  /\ Range(body) = want
           /\ Len(body) = Cardinality(want)
           /\ \A i \in DOMAIN body :
                 /\ q.age # NULL => body[i].age # NULL
                 /\ q.weight # NULL => body[i].weight # NULL
           /\ (\A f \in PetBaseFields : q[f] = NULL) => body = all

\* Rex and a pet without an age are stored; GET /pets?species=Dog&age=5 has
\* returned Rex alone.
C6_Witness ==
    /\ response.op = "list"
    /\ response.kind = "pet"
    /\ response.arg.species = "Dog"
    /\ response.arg.age = "5"
    /\ response.arg.name = NULL
    /\ Len(pets) = 2
    /\ \E i \in DOMAIN pets : pets[i].value.age = NULL
    /\ Len(response.body) = 1

OnlyNestedFilters(q) == \A f \in DOMAIN q \ {"city", "country"} : q[f] = NULL

NestedMatches(x, q) ==
    /\ q.city # NULL => \E i \in DOMAIN x.addresses : x.addresses[i].city = q.city
    /\ q.country # NULL =>
          \E i \in DOMAIN x.addresses : x.addresses[i].country = q.country

\* C7. GET /owners and GET /persons with a city filter (and no filter on a
\* scalar field) return exactly the records with an embedded address in that
\* city; with a country filter as well, exactly those that also have an
\* embedded address, the same or another, in that country.
C7_NestedFilter ==
    ( /\ response.op = "list"
      /\ response.kind \in {"owner", "person"}
      /\ OnlyNestedFilters(response.arg)
      /\ response.arg.city # NULL )
    => LET q == response.arg
           body == response.body
           want == {x \in Range(Values(StoreOf(response.kind))) : NestedMatches(x, q)}
       IN  /\ Range(body) = want
           /\ Len(body) = Cardinality(want)
           /\ \A i \in DOMAIN body : body[i].addresses # <<>>

\* Two owners are stored, one without addresses; GET /owners?city=London&
\* country=FR has returned the other, none of whose addresses is in both.
C7_Witness ==
    /\ response.op = "list"
    /\ response.kind = "owner"
    /\ response.arg.city = "London"
    /\ response.arg.country = "FR"
    /\ Len(owners) = 2
    /\ \E i \in DOMAIN owners : owners[i].value.addresses = <<>>
    /\ Len(response.body) = 1
    /\ \A i \in DOMAIN response.body[1].addresses :
          ~( /\ response.body[1].addresses[i].city = "London"
             /\ response.body[1].addresses[i].country = "FR" )

\* C8. A GET on the id a POST returned, with no write to that id in between,
\* answers 200 with a record that has that id and the Create payload's value
\* in every field the payload gave.
C8_RoundTrip ==
    \A p \in posted :
        ( /\ response.op = "get"
          /\ response.kind = p.kind
          /\ response.id = p.id )
        => /\ response.status = 200
           /\ response.body.id = p.id
           /\ \A f \in DOMAIN p.payload : response.body[f] = p.payload[f]

\* A GET on the id of an owner posted with pets and addresses, and not
\* written since, has been answered while another record has been patched.
C8_Witness ==
    /\ response.op = "get"
    /\ response.kind = "owner"
    /\ Posted("owner", response.id, Ada) \in posted
    /\ Cardinality(posted) < Len(owners) + Len(pets) + Len(persons) + Len(addresses)

\* C9. GET by id, PATCH and DELETE on an id that is not a key of the
\* entity's store answer 404 and leave all four stores unchanged.
C9_UnknownId ==
    [][ ( /\ response'.op \in {"get", "update", "delete"}
          /\ response'.id \notin Keys(StoreOf(response'.kind)) )
        => /\ response'.status = 404
           /\ stores' = stores ]_vars

\* A PATCH that sets every field of a pet, on an id the pet store does not
\* hold while it holds another, has been answered 404.
C9_Witness ==
    /\ response.op = "update"
    /\ response.kind = "pet"
    /\ response.arg = Rex
    /\ response.status = 404
    /\ pets # <<>>

\* What the read in `response` returns when it is served again now.
ReadAgain ==
    LET d == StoreOf(response.kind)
    IN  IF response.op = "get"
        THEN /\ (response.status = 200) = Contains(d, response.id)
             /\ (response.status = 404) = ~Contains(d, response.id)
             /\ Contains(d, response.id) => response.body = Get(d, response.id)
        ELSE response.body =
                CASE response.kind = "address" -> list_addresses_results(response.arg)
                  [] response.kind = "person" -> list_persons_results(response.arg)
                  [] response.kind = "owner" -> list_owners_results(response.arg)
                  [] response.kind = "pet" -> list_pets_results(response.arg)

\* C10. A GET by id or a list leaves all four stores unchanged, and the same
\* read served again straight after it returns the same result.
C10_ReadsAreReads ==
    [][ response'.op \in {"get", "list"}
        => /\ stores' = stores
           /\ ReadAgain' ]_vars

\* A list of the owners in London has returned one of the stored owners.
C10_Witness ==
    /\ response.op = "list"
    /\ response.kind = "owner"
    /\ response.arg.city = "London"
    /\ Len(response.body) = 1
    /\ Len(owners) = 2

C12_Frame ==
    [][ \A kind \in Kinds :
          ( /\ response'.op \in {"create", "update", "delete"}
            /\ response'.kind = kind )
          => \A other \in Kinds \ {kind} : StoreOfNext(other) = StoreOf(other) ]_vars

\* An owner has been deleted while a pet is stored.
C12_Witness ==
    /\ response.op = "delete"
    /\ response.kind = "owner"
    /\ response.status = 204
    /\ pets # <<>>

\* The ids of the records of `kind` that are stored, in creation order.
CreationOrder(kind) ==
    LET Of(b) == b.kind = kind
        created == SelectSeq(born, Of)
    IN  [i \in DOMAIN created |-> created[i].id]

IdsOf(records) == [i \in DOMAIN records |-> records[i].id]

Unfiltered(q) == \A f \in DOMAIN q : q[f] = NULL

\* C13. The records of every store are in creation order, whatever PATCHes
\* and DELETEs have been served; a list returns the matching records in the
\* order of the store, and all of them when no filter is given.
C13_CreationOrder ==
    /\ \A kind \in Kinds : IdsOf(Values(StoreOf(kind))) = CreationOrder(kind)
    /\ response.op = "list"
       => LET all == Values(StoreOf(response.kind))
              Listed(record) == record \in Range(response.body)
          IN  /\ response.status = 200
              /\ response.body = SelectSeq(all, Listed)
              /\ Unfiltered(response.arg) => response.body = all

\* Three pets were created; the first has been patched and the second
\* deleted, and the unfiltered list returns the first and the third.
C13_Witness ==
    /\ response.op = "list"
    /\ response.kind = "pet"
    /\ Unfiltered(response.arg)
    /\ Len(response.body) = 2
    /\ response.body[1].id = FirstPet.id
    /\ response.body[1].age = "6"
    /\ response.body[1].created_at < response.body[2].created_at
    /\ \E id \in UUIDs :
          /\ <<"pet", id>> \in deleted
          /\ id < response.body[2].id

----------------------------------------------------------------------------
(* PATCH and DELETE served by two threads of the pool *)

\* The kinds that have a DELETE.
Deletable == {"owner", "pet"}

\* The record create_owner stored for Ada, at time 0 under the uuid 0.
FirstOwner ==
    OwnerRead([f \in OwnerReadFields |-> IF f \in DOMAIN Ada THEN Ada[f] ELSE 0])

UpdatesOf(kind) == IF kind = "owner" THEN OwnerUpdates ELSE PetUpdates

ReadValid(kind, d) == IF kind = "owner" THEN OwnerReadValid(d) ELSE PetReadValid(d)

Read(kind, d) == IF kind = "owner" THEN OwnerRead(d) ELSE PetRead(d)

\* The store of `kind` becomes d.
Store(kind, d) ==
    /\ owners' = IF kind = "owner" THEN d ELSE owners
    /\ pets' = IF kind = "pet" THEN d ELSE pets

\* A request in a thread: where it is, what it carries, how it ended.
Thread(pc, kind, id, update, stored, status) ==
    [pc |-> pc, kind |-> kind, id |-> id, update |-> update,
     stored |-> stored, status |-> status]

\* The handler has returned or raised: the request is answered with `status`.
Done(thread, status) == [thread EXCEPT !.pc = "done", !.status = status]

\* PATCH /owners/{id} or /pets/{id} is handed to a thread.
update_request(kind, id, update) ==
    /\ patching.pc = "none"
    /\ patching' = Thread("check", kind, id, update, NULL, 0)
    /\ UNCHANGED <<persons, addresses, owners, pets, used, now, deleted, posted,
                   born, deleting, response>>

\* if id not in store: raise HTTPException(404)
update_check ==
    /\ patching.pc = "check"
    /\ patching' = IF ~Contains(StoreOf(patching.kind), patching.id)
                   THEN Done(patching, 404)
                   ELSE [patching EXCEPT !.pc = "read"]
    /\ UNCHANGED <<persons, addresses, owners, pets, used, now, deleted, posted,
                   born, deleting, response>>

\* stored = store[id].model_dump(); stored.update(...): KeyError when the id
\* has gone since the check.
update_read ==
    /\ patching.pc = "read"
    /\ patching' =
          IF ~Contains(StoreOf(patching.kind), patching.id)
          THEN Done(patching, 500)
          ELSE [patching EXCEPT
                   !.pc = "write",
                   !.stored = DictUpdate(Get(StoreOf(patching.kind), patching.id),
                                         patching.update)]
    /\ UNCHANGED <<persons, addresses, owners, pets, used, now, deleted, posted,
                   born, deleting, response>>

\* store[id] = Read(**stored): ValidationError, or the record is put in the
\* store whether the id is still there or not.
update_write ==
    /\ patching.pc = "write"
    /\ IF ReadValid(patching.kind, patching.stored)
       THEN /\ Store(patching.kind,
                     SetItem(StoreOf(patching.kind), patching.id,
                             Read(patching.kind, patching.stored)))
            /\ posted' = Written(patching.kind, patching.id)
            /\ patching' = [patching EXCEPT !.pc = "return"]
       ELSE /\ patching' = Done(patching, 500)
            /\ UNCHANGED <<owners, pets, posted>>
    /\ UNCHANGED <<persons, addresses, used, now, deleted, born, deleting, response>>

\* return store[id]: KeyError when the id has gone since the write.
update_return ==
    /\ patching.pc = "return"
    /\ patching' = IF ~Contains(StoreOf(patching.kind), patching.id)
                   THEN Done(patching, 500)
                   ELSE Done(patching, 200)
    /\ UNCHANGED <<persons, addresses, owners, pets, used, now, deleted, posted,
                   born, deleting, response>>

\* DELETE /owners/{id} or /pets/{id} is handed to a thread.
delete_request(kind, id) ==
    /\ deleting.pc = "none"
    /\ deleting' = Thread("check", kind, id, NULL, NULL, 0)
    /\ UNCHANGED <<persons, addresses, owners, pets, used, now, deleted, posted,
                   born, patching, response>>

\* if id not in store: raise HTTPException(404)
delete_check ==
    /\ deleting.pc = "check"
    /\ deleting' = IF ~Contains(StoreOf(deleting.kind), deleting.id)
                   THEN Done(deleting, 404)
                   ELSE [deleting EXCEPT !.pc = "del"]
    /\ UNCHANGED <<persons, addresses, owners, pets, used, now, deleted, posted,
                   born, patching, response>>

\* del store[id]; return None
delete_del ==
    /\ deleting.pc = "del"
    /\ IF ~Contains(StoreOf(deleting.kind), deleting.id)
       THEN /\ deleting' = Done(deleting, 500)
            /\ UNCHANGED <<owners, pets, deleted, posted, born>>
       ELSE /\ Store(deleting.kind, DelItem(StoreOf(deleting.kind), deleting.id))
            /\ deleted' = deleted \cup {<<deleting.kind, deleting.id>>}
            /\ posted' = Written(deleting.kind, deleting.id)
            /\ born' = Unborn(deleting.kind, deleting.id)
            /\ deleting' = Done(deleting, 204)
    /\ UNCHANGED <<persons, addresses, used, now, patching, response>>

\* An owner and a pet are stored and no request is running.
InitRace ==
    /\ persons = <<>>
    /\ addresses = <<>>
    /\ owners = SetItem(<<>>, FirstOwner.id, FirstOwner)
    /\ pets = SetItem(<<>>, FirstPet.id, FirstPet)
    /\ used = {}
    /\ now = 1
    /\ deleted = {}
    /\ posted = {Posted("owner", FirstOwner.id, Ada), Posted("pet", FirstPet.id, Rex)}
    /\ born = <<Born("owner", FirstOwner), Born("pet", FirstPet)>>
    /\ patching = NoThread
    /\ deleting = NoThread
    /\ response = NoResponse

NextRace ==
    \/ \E kind \in Deletable, id \in KnownIds :
          \E update \in UpdatesOf(kind) : update_request(kind, id, update)
    \/ update_check
    \/ update_read
    \/ update_write
    \/ update_return
    \/ \E kind \in Deletable, id \in KnownIds : delete_request(kind, id)
    \/ delete_check
    \/ delete_del

SpecRace == InitRace /\ [][NextRace]_vars

\* C14. A PATCH and a DELETE on the same owner or pet have both been
\* answered, the PATCH setting no required field to null: the PATCH ended
\* with 200 or 404, and if the DELETE ended with 204 the id is not in the
\* store.
C14_BenignRace ==
    ( /\ patching.pc = "done"
      /\ deleting.pc = "done"
      /\ patching.kind = deleting.kind
      /\ patching.id = deleting.id
      /\ PatchValid(patching.kind, patching.update) )
    => /\ patching.status \in {200, 404}
       /\ deleting.status = 204
          => ~Contains(StoreOf(deleting.kind), deleting.id)
====
